---- MODULE Spec2Model ----
(***************************************************************************)
(* PassGen: a model of src/src/passgen.ts.                                 *)
(*                                                                         *)
(* Strings are sequences of one-character strings, so that indexing,       *)
(* concatenation and character removal are computed as the code computes   *)
(* them.  A JavaScript object is a function from its keys to its values; a *)
(* key whose value is undefined is a key that is absent from the domain.   *)
(***************************************************************************)
EXTENDS Integers, Sequences, FiniteSets, TLC

(* ------------------------------------------------------------------ *)
(* Bounds of the model                                                  *)
(* ------------------------------------------------------------------ *)

\* Length texts of the core specification are all texts of at most this
\* many characters over TextChars (plus the texts named in NamedTexts).
MaxTextLen == 3

\* The random source hands out bytes with this period: every sequence of
\* at most SeedLen bytes is drawn, longer ones repeat their first SeedLen.
SeedLen == 2

\* Byte values are sampled at this stride over 0..255 (255 always kept).
ByteStride == 85

\* generatePassword is called directly with every length up to this one
\* (and with the lengths around the upper limit and the preset lengths).
MaxSmallLen == 3

(* ------------------------------------------------------------------ *)
(* Program constants                                                    *)
(* ------------------------------------------------------------------ *)

\* parseLength: length < 1 is rejected
MinLength == 1

\* parseLength: length > 256 is rejected
MaxLength == 256

\* a byte of a Buffer is 0..255
ByteMax == 255

\* CHAR_SETS, src/src/passgen.ts lines 10-16
CHAR_SETS ==
  [ lowercase |->
      <<"a", "b", "c", "d", "e", "f", "g", "h", "i", "j", "k", "l", "m",
        "n", "o", "p", "q", "r", "s", "t", "u", "v", "w", "x", "y", "z">>,
    uppercase |->
      <<"A", "B", "C", "D", "E", "F", "G", "H", "I", "J", "K", "L", "M",
        "N", "O", "P", "Q", "R", "S", "T", "U", "V", "W", "X", "Y", "Z">>,
    numbers |->
      <<"0", "1", "2", "3", "4", "5", "6", "7", "8", "9">>,
    symbols |->
      <<"!", "@", "#", "$", "%", "^", "&", "*", "(", ")", "_", "+", "-",
        "=", "[", "]", "{", "}", "|", ";", ":", ",", ".", "<", ">", "?">>,
    ambiguous |->
      <<"i", "l", "1", "L", "o", "0", "O">> ]

(* ------------------------------------------------------------------ *)
(* JavaScript values and helpers                                        *)
(* ------------------------------------------------------------------ *)

\* The text of the string "undefined": what `s += undefined` appends.
UndefinedText == <<"u", "n", "d", "e", "f", "i", "n", "e", "d">>

\* Property read with a destructuring default: `{ key = dflt } = obj`.
WithDefault(obj, key, dflt) == IF key \in DOMAIN obj THEN obj[key] ELSE dflt

\* Object literal followed by a spread: `{ ...base, ...over }`.
Spread(base, over) ==
  [k \in (DOMAIN base) \cup (DOMAIN over) |->
     IF k \in DOMAIN over THEN over[k] ELSE base[k]]

\* The object without the keys whose value is undefined.
EmptyObject == [k \in {} |-> FALSE]

\* charset.replace(new RegExp(char, 'g'), ''): every occurrence goes.
ReplaceAllWithEmpty(str, char) == SelectSeq(str, LAMBDA c : c # char)

\* str[index]: a one-character string, or undefined out of range.
CharAt(str, index) ==
  IF index >= 0 /\ index < Len(str) THEN <<str[index + 1]>> ELSE UndefinedText

(* ------------------------------------------------------------------ *)
(* parseInt(string), radix absent (ECMAScript 19.2.5)                   *)
(* ------------------------------------------------------------------ *)

DigitChars ==
  <<"0", "1", "2", "3", "4", "5", "6", "7", "8", "9",
    "a", "b", "c", "d", "e", "f">>

UpperDigitChars ==
  <<"0", "1", "2", "3", "4", "5", "6", "7", "8", "9",
    "A", "B", "C", "D", "E", "F">>

IsWhiteSpace(c) == c \in {" ", "\t", "\n"}

IsDigit(c, radix) ==
  \E i \in 1..radix : DigitChars[i] = c \/ UpperDigitChars[i] = c

DigitValue(c) ==
  (CHOOSE i \in 1..Len(DigitChars) :
     DigitChars[i] = c \/ UpperDigitChars[i] = c) - 1

\* The text without its leading white space.
TrimStart(s) ==
  LET n == Cardinality({i \in 1..Len(s) :
                          \A j \in 1..i : IsWhiteSpace(s[j])})
  IN SubSeq(s, n + 1, Len(s))

\* The longest prefix of s made of digits of the radix.
DigitPrefix(s, radix) ==
  LET n == Cardinality({i \in 1..Len(s) :
                          \A j \in 1..i : IsDigit(s[j], radix)})
  IN SubSeq(s, 1, n)

RECURSIVE MathInt(_, _)
MathInt(digits, radix) ==
  IF digits = <<>> THEN 0
  ELSE MathInt(SubSeq(digits, 1, Len(digits) - 1), radix) * radix
       + DigitValue(digits[Len(digits)])

\* The result is [nan |-> TRUE] for NaN, else the integer parsed.
parseInt(string) ==
  LET trimmed  == TrimStart(string)
      negative == trimmed # <<>> /\ trimmed[1] = "-"
      signed   == trimmed # <<>> /\ trimmed[1] \in {"+", "-"}
      unsigned == IF signed THEN Tail(trimmed) ELSE trimmed
      hex      == Len(unsigned) >= 2 /\ unsigned[1] = "0"
                  /\ unsigned[2] \in {"x", "X"}
      radix    == IF hex THEN 16 ELSE 10
      rest     == IF hex THEN SubSeq(unsigned, 3, Len(unsigned)) ELSE unsigned
      digits   == DigitPrefix(rest, radix)
      magnitude == MathInt(digits, radix)
  IN IF digits = <<>>
       THEN [nan |-> TRUE, value |-> 0]
       ELSE [nan |-> FALSE,
             value |-> IF negative THEN 0 - magnitude ELSE magnitude]

(* ------------------------------------------------------------------ *)
(* What a call does: how it ends and what it leaves behind              *)
(* ------------------------------------------------------------------ *)

\* kind: "return" (value), "throw" (message), "exit" (process.exit(code)).
\* stderr: the console.error lines the call itself wrote, each the tuple
\* of its arguments.
\* drawn: the sizes asked of randomBytes, in order.
Returned(value, drawn) ==
  [kind |-> "return", value |-> value, message |-> "", stderr |-> <<>>,
   exitCode |-> 0, drawn |-> drawn]

Thrown(message, drawn) ==
  [kind |-> "throw", value |-> <<>>, message |-> message, stderr |-> <<>>,
   exitCode |-> 0, drawn |-> drawn]

Exited(code, stderr) ==
  [kind |-> "exit", value |-> <<>>, message |-> "", stderr |-> stderr,
   exitCode |-> code, drawn |-> <<>>]

NoOutcome ==
  [kind |-> "none", value |-> <<>>, message |-> "", stderr |-> <<>>,
   exitCode |-> 0, drawn |-> <<>>]

(* ------------------------------------------------------------------ *)
(* parseLength, lines 100-114                                           *)
(* ------------------------------------------------------------------ *)

MsgPositive == "Length must be a positive number"
MsgTooLarge == "Length cannot exceed 256 characters"

\* Fault: only NaN is rejected, the test length < 1 is missing.
isInvalidLengthNaNOnly(parsed) == parsed.nan

\* line 103: isNaN(length) || length < 1
isInvalidLength(parsed) == parsed.nan \/ parsed.value < MinLength

\* Fault: the upper limit is off by one (length >= 256).
isTooLargeOffByOne(parsed) == parsed.value >= MaxLength

\* line 108: length > 256
isTooLarge(parsed) == parsed.value > MaxLength

\* Fault-free in its tests, but the errors are thrown to the caller instead
\* of being printed and ending the process.
parseLengthThrows(lengthStr) ==
  LET length == parseInt(lengthStr)
  IN IF isInvalidLength(length) THEN Thrown(MsgPositive, <<>>)
     ELSE IF isTooLarge(length) THEN Thrown(MsgTooLarge, <<>>)
     ELSE Returned(length.value, <<>>)

parseLength(lengthStr) ==
  LET length == parseInt(lengthStr)
  IN IF isInvalidLength(length) THEN Exited(1, <<<<MsgPositive>>>>)
     ELSE IF isTooLarge(length) THEN Exited(1, <<<<MsgTooLarge>>>>)
     ELSE Returned(length.value, <<>>)

(* ------------------------------------------------------------------ *)
(* crypto.randomBytes: the secure random source                         *)
(* ------------------------------------------------------------------ *)

\* The byte values the model draws.
ByteValues == {b \in 0..ByteMax : b % ByteStride = 0} \cup {ByteMax}

\* A source either fails, or yields the bytes of its seed, repeated.
RandomSources ==
  [available : BOOLEAN, seed : [1..SeedLen -> ByteValues]]

\* randomBytes(size): a RangeError for a negative size, an error when the
\* source is unavailable, else a buffer of exactly `size` bytes.
randomBytes(size, source) ==
  IF size < 0 \/ ~source.available
    THEN [ok |-> FALSE, bytes |-> <<>>]
    ELSE [ok |-> TRUE,
          bytes |-> [i \in 1..size |-> source.seed[((i - 1) % SeedLen) + 1]]]

MsgRandom == "random source failed"

(* ------------------------------------------------------------------ *)
(* generatePassword, lines 43-78                                        *)
(* ------------------------------------------------------------------ *)

MsgNoCharset == "No character sets selected for password generation"

\* Fault: the loop stops one character early and leaves the last
\* ambiguous character in.
RECURSIVE removeAmbiguousSkipsLast(_, _)
removeAmbiguousSkipsLast(charset, ambiguous) ==
  IF Len(ambiguous) <= 1 THEN charset
  ELSE removeAmbiguousSkipsLast(ReplaceAllWithEmpty(charset, Head(ambiguous)),
                                Tail(ambiguous))

\* lines 60-64: the loop over CHAR_SETS.ambiguous
RECURSIVE removeAmbiguous(_, _)
removeAmbiguous(charset, ambiguous) ==
  IF ambiguous = <<>> THEN charset
  ELSE removeAmbiguous(ReplaceAllWithEmpty(charset, Head(ambiguous)),
                       Tail(ambiguous))

\* lines 44-64: the destructuring defaults and the charset
composeCharset(options) ==
  LET includeLowercase == WithDefault(options, "includeLowercase", TRUE)
      includeUppercase == WithDefault(options, "includeUppercase", TRUE)
      includeNumbers   == WithDefault(options, "includeNumbers", TRUE)
      includeSymbols   == WithDefault(options, "includeSymbols", FALSE)
      excludeAmbiguous == WithDefault(options, "excludeAmbiguous", FALSE)
      composed ==
        (IF includeLowercase THEN CHAR_SETS.lowercase ELSE <<>>)
        \o (IF includeUppercase THEN CHAR_SETS.uppercase ELSE <<>>)
        \o (IF includeNumbers THEN CHAR_SETS.numbers ELSE <<>>)
        \o (IF includeSymbols THEN CHAR_SETS.symbols ELSE <<>>)
  IN IF excludeAmbiguous
       THEN removeAmbiguous(composed, CHAR_SETS.ambiguous)
       ELSE composed

\* Fault: the empty charset is never detected.
charsetIsEmptyNever(charset) == FALSE

\* line 66: charset.length === 0
charsetIsEmpty(charset) == Len(charset) = 0

\* Fault: the byte itself is used as the index, without the modulo.
charsetIndexNoModulo(byte, charsetLength) == byte

\* line 74: array[i] % charset.length (NaN, here -1, when the length is 0)
charsetIndex(byte, charsetLength) ==
  IF charsetLength = 0 THEN 0 - 1 ELSE byte % charsetLength

\* lines 73-75: for (let i = 0; i < length; i++) password += charset[...]
\* The characters appended in rounds from..to - 1 of the loop, in order
\* (the rounds are split in halves to keep the evaluation shallow).
RECURSIVE appended(_, _, _, _)
appended(from, to, array, charset) ==
  IF from >= to THEN <<>>
  ELSE IF from + 1 = to
    THEN CharAt(charset, charsetIndex(array[from + 1], Len(charset)))
    ELSE LET mid == (from + to) \div 2
         IN appended(from, mid, array, charset)
            \o appended(mid, to, array, charset)

\* Fault: the first byte is used again for every position.
buildPasswordReusesFirstByte(length, array, charset) ==
  appended(0, length, [i \in 1..length |-> array[1]], charset)

buildPassword(length, array, charset) == appended(0, length, array, charset)

generatePassword(options, source) ==
  LET length  == options.length
      charset == composeCharset(options)
  IN IF charsetIsEmpty(charset) THEN Thrown(MsgNoCharset, <<>>)
     ELSE LET array == randomBytes(length, source)
          IN IF ~array.ok THEN Thrown(MsgRandom, <<length>>)
             ELSE Returned(buildPassword(length, array.bytes, charset),
                           <<length>>)

(* ------------------------------------------------------------------ *)
(* copyToClipboard, lines 84-93                                         *)
(* ------------------------------------------------------------------ *)

LogGenerated(text) == <<"Generated password:", text>>
LogCopied == <<"Password copied to clipboard!">>
MsgClipboard == "clipboard write failed"

\* Fault: the catch reports the failure and forgets the password.
copyToClipboardDropsOnFailure(text, written) ==
  IF written
    THEN [stdout |-> <<LogGenerated(text), LogCopied>>, stderr |-> <<>>]
    ELSE [stdout |-> <<>>,
          stderr |-> <<<<"Failed to copy to clipboard:", MsgClipboard>>>>]

\* What copyToClipboard prints once clipboardy.write(text) has settled.
copyToClipboard(text, written) ==
  IF written
    THEN [stdout |-> <<LogGenerated(text), LogCopied>>, stderr |-> <<>>]
    ELSE [stdout |-> <<LogGenerated(text)>>,
          stderr |-> <<<<"Failed to copy to clipboard:", MsgClipboard>>>>]

(* ------------------------------------------------------------------ *)
(* The commands, lines 150-246                                          *)
(* ------------------------------------------------------------------ *)

\* commander: an option declared only as --no-name is true unless given.
negatable(given) == ~given

\* commander: -l <number> with a default value
optionValue(arg, dflt) == IF arg = <<>> THEN dflt ELSE arg[1]

\* Fault: symbols declared as an opt-in flag, off unless it is given.
defaultCommandOptionsOptInSymbols(argv) ==
  LET always ==
        [length    |-> optionValue(argv.l, <<"1", "6">>),
         lowercase |-> negatable(argv.noLowercase),
         uppercase |-> negatable(argv.noUppercase),
         numbers   |-> negatable(argv.noNumbers),
         symbols   |-> argv.noSymbols,
         copy      |-> negatable(argv.noCopy)]
  IN IF argv.x
       THEN Spread(always, [excludeAmbiguous |-> TRUE])
       ELSE always

\* lines 157-164: the options object of the default command.  A flag
\* declared without a default (-x) is absent until it is given.
defaultCommandOptions(argv) ==
  LET always ==
        [length    |-> optionValue(argv.l, <<"1", "6">>),
         lowercase |-> negatable(argv.noLowercase),
         uppercase |-> negatable(argv.noUppercase),
         numbers   |-> negatable(argv.noNumbers),
         symbols   |-> negatable(argv.noSymbols),
         copy      |-> negatable(argv.noCopy)]
  IN IF argv.x
       THEN Spread(always, [excludeAmbiguous |-> TRUE])
       ELSE always

\* lines 173-174, 198-199, 223-224: the options object of a preset command
presetCommandOptions(argv, dflt) ==
  [length |-> optionValue(argv.l, dflt), clipboard |-> negatable(argv.noClipboard)]

\* lines 176-184
simpleCommandOptions(options) ==
  [length |-> options.length, copy |-> options.clipboard,
   lowercase |-> TRUE, uppercase |-> TRUE, numbers |-> TRUE,
   symbols |-> TRUE, excludeAmbiguous |-> TRUE]

\* lines 186-192
simplePasswordOptions ==
  [includeLowercase |-> TRUE, includeUppercase |-> TRUE,
   includeNumbers |-> TRUE, includeSymbols |-> TRUE,
   excludeAmbiguous |-> TRUE]

\* lines 201-209
strongCommandOptions(options) ==
  [length |-> options.length, copy |-> options.clipboard,
   lowercase |-> TRUE, uppercase |-> TRUE, numbers |-> TRUE,
   symbols |-> TRUE, excludeAmbiguous |-> FALSE]

\* lines 211-217
strongPasswordOptions ==
  [includeLowercase |-> TRUE, includeUppercase |-> TRUE,
   includeNumbers |-> TRUE, includeSymbols |-> TRUE,
   excludeAmbiguous |-> FALSE]

\* lines 226-234
pinCommandOptions(options) ==
  [length |-> options.length, copy |-> options.clipboard,
   lowercase |-> FALSE, uppercase |-> FALSE, numbers |-> TRUE,
   symbols |-> FALSE, excludeAmbiguous |-> FALSE]

\* Fault: the pin preset lets lowercase letters in.
pinPasswordOptionsWithLowercase ==
  [includeLowercase |-> TRUE, includeUppercase |-> FALSE,
   includeNumbers |-> TRUE, includeSymbols |-> FALSE,
   excludeAmbiguous |-> FALSE]

\* lines 236-242
pinPasswordOptions ==
  [includeLowercase |-> FALSE, includeUppercase |-> FALSE,
   includeNumbers |-> TRUE, includeSymbols |-> FALSE,
   excludeAmbiguous |-> FALSE]

(* ------------------------------------------------------------------ *)
(* handlePasswordGeneration, lines 121-148                              *)
(* ------------------------------------------------------------------ *)

\* The option each field of the object literal of lines 129-134 reads.
OptionOf ==
  [includeLowercase |-> "lowercase", includeUppercase |-> "uppercase",
   includeNumbers |-> "numbers", includeSymbols |-> "symbols",
   excludeAmbiguous |-> "excludeAmbiguous"]

\* lines 128-136: the argument of generatePassword
passwordConfig(length, options, passwordOptions) ==
  LET defined == {k \in DOMAIN OptionOf : OptionOf[k] \in DOMAIN options}
      literal == [k \in defined \cup {"length"} |->
                    IF k = "length" THEN length ELSE options[OptionOf[k]]]
  IN Spread(literal, passwordOptions)

\* Fault: the catch prints the error and lets the run end normally.
catchErrorWithoutExit(message) ==
  [stderr |-> <<<<"Error generating password:", message>>>>, exitCode |-> 0]

\* lines 144-147: the catch
catchError(message) ==
  [stderr |-> <<<<"Error generating password:", message>>>>, exitCode |-> 1]

(* ------------------------------------------------------------------ *)
(* Inputs                                                               *)
(* ------------------------------------------------------------------ *)

\* The texts the command line passes as -l <number>.
NamedTexts ==
  { <<"0">>, <<"-", "5">>, <<"a", "b", "c">>, <<"2", "5", "7">>,
    <<"2", "5", "6">>, <<"1", "2", "a", "b", "c">>, <<"3", ".", "7">>,
    <<"1">>, <<"2">>, <<"0", "x", "1", "0">>, <<>> }

TextChars == {"-", "+", " ", ".", "a", "x", "0", "1", "2", "5", "6", "7"}

\* The texts parseLength is called with directly.
LengthTexts ==
  NamedTexts \cup UNION {[1..n -> TextChars] : n \in 0..MaxTextLen}

\* -l is absent (<<>>) or carries one text.
LengthArgs == {<<>>} \cup {<<t>> : t \in NamedTexts}

DefaultArgv ==
  [l : LengthArgs, noLowercase : BOOLEAN, noUppercase : BOOLEAN,
   noNumbers : BOOLEAN, noSymbols : BOOLEAN, x : BOOLEAN, noCopy : BOOLEAN]

PresetArgv == [l : LengthArgs, noClipboard : BOOLEAN]

\* The sources a call can meet: every seed, and the unavailable source.
Sources ==
  {s \in RandomSources :
     s.available \/ s.seed = [i \in 1..SeedLen |-> 0]}

\* The lengths generatePassword is called with directly.
CoreLengths ==
  ((0 - 1)..MaxSmallLen) \cup {6, 12, 16, 20}
  \cup ((MaxLength - 1)..(MaxLength + 1))

\* The option objects generatePassword is called with directly: the four
\* inclusion flags set, excludeAmbiguous set or absent.
CoreOptions ==
  LET flags == [includeLowercase : BOOLEAN, includeUppercase : BOOLEAN,
                includeNumbers : BOOLEAN, includeSymbols : BOOLEAN]
      withLength == {Spread(f, [length |-> n]) : f \in flags, n \in CoreLengths}
  IN withLength
     \cup {Spread(o, [excludeAmbiguous |-> e]) : o \in withLength, e \in BOOLEAN}

CoreCalls ==
  {[fn |-> "parseLength", lengthStr |-> t, options |-> EmptyObject,
    source |-> CHOOSE s \in Sources : ~s.available] : t \in LengthTexts}
  \cup
  {[fn |-> "generatePassword", lengthStr |-> <<>>, options |-> o,
    source |-> s] : o \in CoreOptions, s \in Sources}

NoCall ==
  [fn |-> "none", lengthStr |-> <<>>, options |-> EmptyObject,
   source |-> CHOOSE s \in Sources : ~s.available]

(* ------------------------------------------------------------------ *)
(* State                                                                *)
(* ------------------------------------------------------------------ *)

VARIABLES
  pc,              \* where the run is: start, parseLength, generatePassword,
                   \* output, clipboard, exited
  command,         \* default, simple, strong, pin
  argv,            \* the command line as commander parsed it
  options,         \* handlePasswordGeneration's options
  passwordOptions, \* handlePasswordGeneration's passwordOptions
  length,          \* const length of line 126
  config,          \* the object handed to generatePassword
  password,        \* const password of line 128
  generated,       \* generatePassword has returned
  drawn,           \* the sizes asked of randomBytes so far
  clipboardWrites, \* the texts handed to clipboardy.write so far
  stdout,          \* console.log lines
  stderr,          \* console.error lines
  exitCode,        \* the exit status, once pc = "exited"
  call,            \* a direct call of a core function
  ret              \* what that call did

cliVars ==
  <<pc, command, argv, options, passwordOptions, length, config, password,
    generated, drawn, clipboardWrites, stdout, stderr, exitCode>>

vars == <<cliVars, call, ret>>

CliInit ==
  /\ pc = "start"
  /\ command = "none"
  /\ argv = EmptyObject
  /\ options = EmptyObject
  /\ passwordOptions = EmptyObject
  /\ length = 0
  /\ config = EmptyObject
  /\ password = <<>>
  /\ generated = FALSE
  /\ drawn = <<>>
  /\ clipboardWrites = <<>>
  /\ stdout = <<>>
  /\ stderr = <<>>
  /\ exitCode = 0

Init ==
  /\ CliInit
  /\ call = NoCall
  /\ ret = NoOutcome

(* ------------------------------------------------------------------ *)
(* A run of the command line                                            *)
(* ------------------------------------------------------------------ *)

\* The action handler is entered with the options commander parsed.
Enter(name, args, opts, pwOpts) ==
  /\ pc' = "parseLength"
  /\ command' = name
  /\ argv' = args
  /\ options' = opts
  /\ passwordOptions' = pwOpts
  /\ UNCHANGED <<length, config, password, generated, drawn,
                 clipboardWrites, stdout, stderr, exitCode, call, ret>>

\* lines 157-167
RunDefault ==
  \E args \in DefaultArgv :
    /\ pc = "start"
    /\ Enter("default", args, defaultCommandOptions(args), EmptyObject)

\* lines 170-193
RunSimple ==
  \E args \in PresetArgv :
    /\ pc = "start"
    /\ Enter("simple", args,
             simpleCommandOptions(presetCommandOptions(args, <<"1", "2">>)),
             simplePasswordOptions)

\* lines 195-218
RunStrong ==
  \E args \in PresetArgv :
    /\ pc = "start"
    /\ Enter("strong", args,
             strongCommandOptions(presetCommandOptions(args, <<"2", "0">>)),
             strongPasswordOptions)

\* lines 220-243
RunPin ==
  \E args \in PresetArgv :
    /\ pc = "start"
    /\ Enter("pin", args,
             pinCommandOptions(presetCommandOptions(args, <<"6">>)),
             pinPasswordOptions)

\* line 126: const length = parseLength(options.length)
ParseLength ==
  /\ pc = "parseLength"
  /\ LET r == parseLength(options.length)
     IN IF r.kind = "exit"
          THEN /\ pc' = "exited"
               /\ stderr' = stderr \o r.stderr
               /\ exitCode' = r.exitCode
               /\ UNCHANGED length
          ELSE /\ pc' = "generatePassword"
               /\ length' = r.value
               /\ UNCHANGED <<stderr, exitCode>>
  /\ UNCHANGED <<command, argv, options, passwordOptions, config, password,
                 generated, drawn, clipboardWrites, stdout, call, ret>>

\* lines 128-136, and the catch of lines 144-147 when it throws
GeneratePassword ==
  /\ pc = "generatePassword"
  /\ \E source \in Sources :
       LET cfg == passwordConfig(length, options, passwordOptions)
           r   == generatePassword(cfg, source)
       IN /\ config' = cfg
          /\ drawn' = drawn \o r.drawn
          /\ IF r.kind = "throw"
               THEN /\ pc' = "exited"
                    /\ stderr' = stderr \o catchError(r.message).stderr
                    /\ exitCode' = catchError(r.message).exitCode
                    /\ UNCHANGED <<password, generated>>
               ELSE /\ pc' = "output"
                    /\ password' = r.value
                    /\ generated' = TRUE
                    /\ UNCHANGED <<stderr, exitCode>>
  /\ UNCHANGED <<command, argv, options, passwordOptions, length,
                 clipboardWrites, stdout, call, ret>>

\* lines 138-142: display, or hand the password to clipboardy.write
Output ==
  /\ pc = "output"
  /\ IF options.copy
       THEN /\ pc' = "clipboard"
            /\ clipboardWrites' = Append(clipboardWrites, password)
            /\ UNCHANGED <<stdout, exitCode>>
       ELSE /\ pc' = "exited"
            /\ stdout' = Append(stdout, LogGenerated(password))
            /\ exitCode' = 0
            /\ UNCHANGED clipboardWrites
  /\ UNCHANGED <<command, argv, options, passwordOptions, length, config,
                 password, generated, drawn, stderr, call, ret>>

\* lines 86-92: clipboardy.write settles, copyToClipboard prints, the run ends
ClipboardSettles(written) ==
  /\ pc' = "exited"
  /\ stdout' = stdout \o copyToClipboard(password, written).stdout
  /\ stderr' = stderr \o copyToClipboard(password, written).stderr
  /\ exitCode' = 0
  /\ UNCHANGED <<command, argv, options, passwordOptions, length, config,
                 password, generated, drawn, clipboardWrites, call, ret>>

ClipboardWritten ==
  /\ pc = "clipboard"
  /\ ClipboardSettles(TRUE)

ClipboardFailed ==
  /\ pc = "clipboard"
  /\ ClipboardSettles(FALSE)

Next ==
  \/ RunDefault
  \/ RunSimple
  \/ RunStrong
  \/ RunPin
  \/ ParseLength
  \/ GeneratePassword
  \/ Output
  \/ ClipboardWritten
  \/ ClipboardFailed

Spec == Init /\ [][Next]_vars

(* ------------------------------------------------------------------ *)
(* Direct calls of the core functions                                   *)
(* ------------------------------------------------------------------ *)

CoreInit ==
  /\ CliInit
  /\ call \in CoreCalls
  /\ ret = NoOutcome

CallParseLength ==
  /\ call.fn = "parseLength"
  /\ ret.kind = "none"
  /\ ret' = parseLength(call.lengthStr)
  /\ UNCHANGED <<cliVars, call>>

CallGeneratePassword ==
  /\ call.fn = "generatePassword"
  /\ ret.kind = "none"
  /\ ret' = generatePassword(call.options, call.source)
  /\ UNCHANGED <<cliVars, call>>

CoreNext ==
  \/ CallParseLength
  \/ CallGeneratePassword

CoreSpec == CoreInit /\ [][CoreNext]_vars

(* ------------------------------------------------------------------ *)
(* Notions the properties are stated with                               *)
(* ------------------------------------------------------------------ *)

Range(s) == {s[i] : i \in 1..Len(s)}

DecimalDigitsInOrder == <<"0", "1", "2", "3", "4", "5", "6", "7", "8", "9">>

DecimalDigits == {DecimalDigitsInOrder[i] : i \in 1..Len(DecimalDigitsInOrder)}

\* The text without the blanks around it.
Stripped(text) ==
  LET inside == {i \in 1..Len(text) : text[i] # " "}
  IN IF inside = {} THEN <<>>
     ELSE SubSeq(text,
                 CHOOSE i \in inside : \A j \in inside : i <= j,
                 CHOOSE i \in inside : \A j \in inside : i >= j)

\* The digits of an integer text: what follows its optional sign.
Unsigned(text) ==
  IF text # <<>> /\ text[1] \in {"+", "-"} THEN Tail(text) ELSE text

\* A decimal integer: an optional sign, then decimal digits and nothing else.
IsIntegerText(text) ==
  LET digits == Unsigned(Stripped(text))
  IN digits # <<>> /\ \A i \in 1..Len(digits) : digits[i] \in DecimalDigits

\* The value of the digit c, read off the order of the digits.
DecimalDigitValue(c) ==
  (CHOOSE i \in 1..Len(DecimalDigitsInOrder) : DecimalDigitsInOrder[i] = c) - 1

\* The integer a decimal integer text denotes.
IntegerValue(text) ==
  LET s      == Stripped(text)
      digits == Unsigned(s)
      n      == Len(digits)
      pow[k \in 0..n] == IF k = 0 THEN 1 ELSE 10 * pow[k - 1]
      sum[k \in 0..n] ==
        IF k = 0 THEN 0
        ELSE sum[k - 1] + DecimalDigitValue(digits[k]) * pow[n - k]
  IN IF s[1] = "-" THEN 0 - sum[n] ELSE sum[n]

\* A text without any digit in it, such as "abc".
IsNonNumericText(text) ==
  \A i \in 1..Len(text) : text[i] \notin DecimalDigits

CalledParseLength == call.fn = "parseLength" /\ ret.kind # "none"

CalledGeneratePassword == call.fn = "generatePassword" /\ ret.kind # "none"

FailsWith(outcome, message) ==
  /\ outcome.kind = "exit"
  /\ outcome.exitCode # 0
  /\ outcome.stderr = <<<<message>>>>

AllFlagsFalse(o) ==
  /\ ~o.includeLowercase /\ ~o.includeUppercase
  /\ ~o.includeNumbers /\ ~o.includeSymbols

(* ------------------------------------------------------------------ *)
(* Properties of the core functions (CoreSpec)                          *)
(* ------------------------------------------------------------------ *)

\* C1: with a non-empty composed alphabet, a length in 1..256 and the
\* random bytes supplied, generatePassword returns a string of exactly
\* `length` characters, each of them a member of the composed alphabet.
C1_LengthAndAlphabet ==
  ( /\ CalledGeneratePassword
    /\ composeCharset(call.options) # <<>>
    /\ call.options.length \in MinLength..MaxLength
    /\ call.source.available )
  => /\ ret.kind = "return"
     /\ Len(ret.value) = call.options.length
     /\ \A i \in 1..Len(ret.value) :
          ret.value[i] \in Range(composeCharset(call.options))

\* A 256-character password over all four sets whose bytes reach beyond
\* the first character of the alphabet.
C1_Witness ==
  /\ CalledGeneratePassword
  /\ ret.kind = "return"
  /\ call.options.length = MaxLength
  /\ Len(ret.value) = MaxLength
  /\ Len(composeCharset(call.options)) > ByteStride
  /\ ret.value[1] # composeCharset(call.options)[1]
  /\ ret.value[2] # ret.value[1]

\* C2: with the four inclusion flags false, whatever excludeAmbiguous and
\* the length are, generatePassword throws the empty-alphabet error: it
\* returns no string and has asked for no random byte.
C2_EmptyAlphabetThrows ==
  (CalledGeneratePassword /\ AllFlagsFalse(call.options))
  => /\ ret.kind = "throw"
     /\ ret.message = MsgNoCharset
     /\ ret.value = <<>>
     /\ ret.drawn = <<>>

\* The call with nothing included, excludeAmbiguous set, a valid length
\* and a working random source.
C2_Witness ==
  /\ CalledGeneratePassword
  /\ AllFlagsFalse(call.options)
  /\ "excludeAmbiguous" \in DOMAIN call.options
  /\ call.options.excludeAmbiguous
  /\ call.options.length = 16
  /\ call.source.available
  /\ ret.kind = "throw"

\* C3: parseLength on a decimal integer text: below 1 it fails with the
\* positive-number error, above 256 with the too-large error, from 1 to
\* 256 it returns the integer supplied; a text without a digit fails
\* with the positive-number error.
C3_Classification ==
  CalledParseLength =>
    /\ IsNonNumericText(call.lengthStr) => FailsWith(ret, MsgPositive)
    /\ IsIntegerText(call.lengthStr) =>
         LET n == IntegerValue(call.lengthStr)
         IN /\ n < 1 => FailsWith(ret, MsgPositive)
            /\ n > 256 => FailsWith(ret, MsgTooLarge)
            /\ n \in 1..256 => ret.kind = "return" /\ ret.value = n

\* "256" is accepted and comes back as 256.
C3_Witness ==
  /\ CalledParseLength
  /\ call.lengthStr = <<"2", "5", "6">>
  /\ ret.kind = "return"
  /\ ret.value = 256

\* C4 (as claimed): every text that is not an integer, "12abc" and "3.7"
\* included, fails with the positive-number error.
C4_NonIntegerRejected ==
  (CalledParseLength /\ ~IsIntegerText(call.lengthStr))
  => FailsWith(ret, MsgPositive)

\* C10 (as claimed): no call of a core function writes to the console or
\* ends the process: every error comes back to the caller.
C10_CoreNeverLogsNorExits ==
  ret.kind # "none" =>
    /\ ret.kind \in {"return", "throw"}
    /\ ret.stderr = <<>>

\* C10 (amended): generatePassword throws its errors to the caller and
\* neither prints nor exits; parseLength returns only a length in 1..256
\* and otherwise itself prints one error line and ends the process with
\* status 1.
C10_OnlyParseLengthLogsAndExits ==
  /\ CalledGeneratePassword =>
       /\ ret.kind \in {"return", "throw"}
       /\ ret.stderr = <<>>
  /\ CalledParseLength =>
       \/ /\ ret.kind = "return"
          /\ ret.stderr = <<>>
          /\ ret.value \in MinLength..MaxLength
       \/ /\ ret.kind = "exit"
          /\ ret.exitCode = 1
          /\ ret.stderr \in {<<<<MsgPositive>>>>, <<<<MsgTooLarge>>>>}

\* parseLength itself has printed the too-large error and ended the
\* process on "257".
C10_Witness ==
  /\ CalledParseLength
  /\ call.lengthStr = <<"2", "5", "7">>
  /\ ret.kind = "exit"
  /\ ret.stderr = <<<<MsgTooLarge>>>>

(* ------------------------------------------------------------------ *)
(* Properties of a run of the command line (Spec)                       *)
(* ------------------------------------------------------------------ *)

Presets == {"simple", "strong", "pin"}

\* generatePassword has been handed its argument.
Handed == DOMAIN config # {}

\* A length text that is invalid: no digit in it, or an integer outside
\* 1..256.
IsInvalidLengthText(text) ==
  \/ IsNonNumericText(text)
  \/ IsIntegerText(text) /\ IntegerValue(text) \notin 1..256

\* The default command with no flag given.
NoFlags ==
  /\ command = "default"
  /\ argv.l = <<>>
  /\ ~argv.noLowercase /\ ~argv.noUppercase /\ ~argv.noNumbers
  /\ ~argv.noSymbols /\ ~argv.x /\ ~argv.noCopy

Logged(stream, label) ==
  \E i \in 1..Len(stream) : stream[i][1] = label

AllSets ==
  CHAR_SETS.lowercase \o CHAR_SETS.uppercase \o CHAR_SETS.numbers
  \o CHAR_SETS.symbols

\* C5: the length is validated before the random source is asked: no
\* byte is drawn before parseLength has returned, none at all when the
\* length text is invalid, and every draw asks for the validated length,
\* which lies in 1..256.
C5_ValidatedBeforeDraw ==
  /\ pc \in {"start", "parseLength"} => drawn = <<>>
  /\ (command # "none" /\ IsInvalidLengthText(options.length)) => drawn = <<>>
  /\ \A i \in 1..Len(drawn) : drawn[i] = length /\ drawn[i] \in 1..256

\* The default command has drawn 256 bytes for -l 256.
C5_Witness ==
  /\ command = "default"
  /\ argv.l = <<<<"2", "5", "6">>>>
  /\ pc = "output"
  /\ drawn = <<256>>

\* C6: a preset hands generatePassword its fixed flags and the length of
\* -l, or its own default length without -l: simple 12, all four sets,
\* ambiguous excluded; strong 20, all four sets, ambiguous kept; pin 6,
\* numbers only, ambiguous kept.  The pin of default length is 6 digits.
C6_PresetsAreFixed ==
  (command \in Presets /\ Handed) =>
    /\ config.length = length
    /\ IsIntegerText(options.length) => length = IntegerValue(options.length)
    /\ argv.l # <<>> => options.length = argv.l[1]
    /\ (command = "simple") =>
         /\ argv.l = <<>> => config.length = 12
         /\ config.includeLowercase /\ config.includeUppercase
         /\ config.includeNumbers /\ config.includeSymbols
         /\ config.excludeAmbiguous
    /\ (command = "strong") =>
         /\ argv.l = <<>> => config.length = 20
         /\ config.includeLowercase /\ config.includeUppercase
         /\ config.includeNumbers /\ config.includeSymbols
         /\ ~config.excludeAmbiguous
    /\ (command = "pin") =>
         /\ argv.l = <<>> => config.length = 6
         /\ ~config.includeLowercase /\ ~config.includeUppercase
         /\ config.includeNumbers /\ ~config.includeSymbols
         /\ ~config.excludeAmbiguous
         /\ (argv.l = <<>> /\ generated) =>
              /\ Len(password) = 6
              /\ \A i \in 1..Len(password) : password[i] \in DecimalDigits

\* A pin of default length has been generated, not all of one digit.
C6_Witness ==
  /\ command = "pin"
  /\ argv.l = <<>>
  /\ generated
  /\ Len(password) = 6
  /\ password[1] # password[2]

\* C7 (as claimed): the default command without flags hands over length
\* 16, lowercase, uppercase and numbers, no symbols, ambiguous kept, and
\* its password holds no symbol.
C7_DefaultExcludesSymbols ==
  (NoFlags /\ generated) =>
    /\ config.length = 16
    /\ config.includeLowercase /\ config.includeUppercase
    /\ config.includeNumbers
    /\ ~WithDefault(config, "includeSymbols", FALSE)
    /\ ~WithDefault(config, "excludeAmbiguous", FALSE)
    /\ \A i \in 1..Len(password) : password[i] \notin Range(CHAR_SETS.symbols)

\* C7 (amended): the default command without flags hands over length 16
\* and all four sets, symbols included, with ambiguous-exclusion off; its
\* password has 16 characters of the four sets.
C7_DefaultIncludesSymbols ==
  (NoFlags /\ Handed) =>
    /\ config.length = 16
    /\ config.includeLowercase /\ config.includeUppercase
    /\ config.includeNumbers
    /\ WithDefault(config, "includeSymbols", FALSE)
    /\ ~WithDefault(config, "excludeAmbiguous", FALSE)
    /\ generated =>
         /\ Len(password) = 16
         /\ \A i \in 1..Len(password) : password[i] \in Range(AllSets)

\* A default password with a symbol in it.
C7_Witness ==
  /\ NoFlags
  /\ generated
  /\ \E i \in 1..Len(password) : password[i] \in Range(CHAR_SETS.symbols)

\* C8: when the clipboard write fails after a password was generated,
\* that password, the one handed to the clipboard, is printed, and the
\* run ends normally, without a generation error.
C8_PasswordShownWhenClipboardFails ==
  Logged(stderr, "Failed to copy to clipboard:") =>
    /\ generated
    /\ clipboardWrites = <<password>>
    /\ stdout = <<LogGenerated(password)>>
    /\ ~Logged(stderr, "Error generating password:")
    /\ pc = "exited"
    /\ exitCode = 0

\* The clipboard write of a 20-character strong password has failed.
C8_Witness ==
  /\ command = "strong"
  /\ Logged(stderr, "Failed to copy to clipboard:")
  /\ Len(password) = 20
  /\ stdout = <<LogGenerated(password)>>

\* C9: a run in which parseLength or generatePassword fails prints no
\* password, hands nothing to the clipboard and ends with a non-zero
\* status; until a password is generated nothing is shown or copied.
C9_CoreFailureShowsNothing ==
  /\ ~generated => stdout = <<>> /\ clipboardWrites = <<>>
  /\ (pc = "exited" /\ ~generated) =>
       /\ exitCode # 0
       /\ stderr # <<>>

\* The random source has failed in a run that was to copy the password.
C9_Witness ==
  /\ pc = "exited"
  /\ ~generated
  /\ options.copy
  /\ drawn # <<>>
  /\ stderr = <<<<"Error generating password:", MsgRandom>>>>
  /\ exitCode = 1

(* ------------------------------------------------------------------ *)
(* The alphabet and the selection of characters (CoreSpec)              *)
(* ------------------------------------------------------------------ *)

\* An inclusion or exclusion flag as generatePassword reads it.
FlagSet(o, flag) == flag \in DOMAIN o /\ o[flag]

\* The included sets, one after the other: lowercase, uppercase, numbers,
\* symbols.
IncludedSets(o) ==
  (IF o.includeLowercase THEN CHAR_SETS.lowercase ELSE <<>>)
  \o (IF o.includeUppercase THEN CHAR_SETS.uppercase ELSE <<>>)
  \o (IF o.includeNumbers THEN CHAR_SETS.numbers ELSE <<>>)
  \o (IF o.includeSymbols THEN CHAR_SETS.symbols ELSE <<>>)

AmbiguousChars == {"i", "l", "1", "L", "o", "0", "O"}

\* The sequence without its ambiguous characters, the others in order.
WithoutAmbiguous(s) == SelectSeq(s, LAMBDA c : c \notin AmbiguousChars)

\* C11: the composed alphabet is the concatenation of exactly the
\* included sets in the order lowercase, uppercase, numbers, symbols;
\* with excludeAmbiguous, every i, l, 1, L, o, 0, O is gone and the other
\* characters keep their order.  Lowercase alone without the ambiguous
\* characters is the 23 letters other than i, l and o.
C11_ComposedAlphabet ==
  CalledGeneratePassword =>
    LET o       == call.options
        charset == composeCharset(o)
    IN /\ ~FlagSet(o, "excludeAmbiguous") => charset = IncludedSets(o)
       /\ FlagSet(o, "excludeAmbiguous") =>
            charset = WithoutAmbiguous(IncludedSets(o))
       /\ ( /\ FlagSet(o, "excludeAmbiguous")
            /\ o.includeLowercase /\ ~o.includeUppercase
            /\ ~o.includeNumbers /\ ~o.includeSymbols )
          => /\ Len(charset) = 23
             /\ Range(charset) = Range(CHAR_SETS.lowercase) \ {"i", "l", "o"}
       /\ (ret.kind = "return" /\ call.options.length >= 0) =>
            \A i \in 1..Len(ret.value) : ret.value[i] \in Range(charset)

\* A password over all four sets without the ambiguous characters has
\* been generated: an alphabet of 81 characters.
C11_Witness ==
  /\ CalledGeneratePassword
  /\ FlagSet(call.options, "excludeAmbiguous")
  /\ call.options.includeLowercase /\ call.options.includeUppercase
  /\ call.options.includeNumbers /\ call.options.includeSymbols
  /\ Len(composeCharset(call.options)) = 81
  /\ ret.kind = "return"
  /\ call.options.length = 16


\* The byte the source supplies for position i (counted from 1).
ByteAt(source, i) == source.seed[((i - 1) % SeedLen) + 1]

\* C12: with a non-empty alphabet and a length in 1..256, the character
\* at position i of the password is the alphabet character at index
\* (b_i mod alphabetLength), b_i being the byte at the same position:
\* one byte for each position, none used for another.
C12_CharacterOfByte ==
  ( /\ CalledGeneratePassword
    /\ composeCharset(call.options) # <<>>
    /\ call.options.length \in MinLength..MaxLength
    /\ call.source.available )
  => LET charset == composeCharset(call.options)
         n       == call.options.length
     IN /\ ret.kind = "return"
        /\ ret.drawn = <<n>>
        /\ DOMAIN ret.value = 1..n
        /\ \A i \in 1..n :
             ret.value[i] = charset[(ByteAt(call.source, i) % Len(charset)) + 1]

\* A 256-character pin whose first two bytes differ and exceed the
\* alphabet's length, so that the modulo and the position both matter.
C12_Witness ==
  /\ CalledGeneratePassword
  /\ ret.kind = "return"
  /\ call.options.length = MaxLength
  /\ Len(composeCharset(call.options)) = 10
  /\ ByteAt(call.source, 1) > 10
  /\ ByteAt(call.source, 2) > 10
  /\ ret.value[1] # ret.value[2]
  /\ ret.value[MaxLength] = ret.value[2]

====
